---- MODULE Spec2Model ----
(***************************************************************************)
(* Model of worker::BaseWorker / worker::AsyncWorker                       *)
(* (src/include/worker/worker.hpp).                                        *)
(*                                                                         *)
(* One task: the worker thread started by std::async runs                  *)
(* AsyncWorker::work, controller threads call pause / restart / stop /     *)
(* wait / status.  status_m_ is an explicit mutex, status_cv_ an explicit  *)
(* wait set: a thread inside condition_variable::wait is "waiting" until   *)
(* a notify_all (or a spurious wake-up) makes it "woken"; it then has to   *)
(* take the mutex again and re-evaluate its predicate.  Every step is one  *)
(* critical section (from taking the mutex to releasing it or blocking in  *)
(* the condition variable) or one lock-free statement.                     *)
(***************************************************************************)
EXTENDS Integers, FiniteSets, Sequences, TLC

\* ---------------------------------------------------------------- bounds
\* number of yield calls the payload may make
MaxYields == 2
\* number of calls the mutating controller thread may make
MaxCalls == 3
\* number of calls the read-only observer thread may make
MaxObserverCalls == 1
\* number of command lines the console loop reads
MaxCommands == 2

\* ------------------------------------------------------------- constants
RUNNING == "RUNNING"
PAUSED == "PAUSED"
STOPPED == "STOPPED"
FINISHED == "FINISHED"
\* std::optional<Status> without a value
NONE == "NONE"

Status == {RUNNING, PAUSED, STOPPED, FINISHED}

\* progress is kept in percent: 0.0 is 0, 1.0 is 100
ProgressMin == 0
ProgressMax == 100
\* values a payload passes to yield (below, inside and above the range)
ProgressInputs == {-50, 50, 150}

\* the thread std::async starts, the controller thread, a read-only thread
Worker == "w"
Controller == "c"
Observer == "o"
Threads == {Worker, Controller, Observer}
Callers == {Controller, Observer}
\* status_m_ not owned
FREE == "free"
\* the destructor of AsyncWorker, as a value of op
Destructor == "~AsyncWorker"
\* no value produced yet
NoValue == -1
\* the value the payload returns: twice the number of yield calls it made
PayloadValue(n) == 2 * n

VARIABLES
    status_,         \* BaseWorker::status_
    status_change_,  \* BaseWorker::status_change_ (NONE when empty)
    progress_,       \* BaseWorker::progress_, in percent
    mutex,           \* owner of status_m_, or FREE
    pc,              \* position of every thread
    op,              \* the BaseWorker method a caller is in / was last in
    outcome,         \* how that call ended: "none" while it runs
    calls,           \* calls made by each caller
    yields,          \* yield calls made by the payload
    yield_ret,       \* value the last yield call returned ("none" before)
    future,          \* shared state of AsyncWorker::future_
    ret,             \* the value the payload returned (NoValue before)
    valid,           \* future_.valid()
    got,             \* the value result() returned (NoValue before)
    os,              \* what operator<< wrote last: status word and percentage
    command,         \* tokenized_comand while execute_command runs
    console,         \* message execute_command printed for the last command
    joinable         \* Worker::thread_.joinable() of the thread-based variant

vars == <<status_, status_change_, progress_, mutex, pc, op, outcome, calls,
          yields, yield_ret, future, ret, valid, got, os, command, console, joinable>>

\* ------------------------------------------------------ pure functions
terminal_status(s) == s = STOPPED \/ s = FINISHED

\* set_progress storing the value as given
clamp_none(p) == p

clamp(p) == IF p < ProgressMin THEN ProgressMin
            ELSE IF p > ProgressMax THEN ProgressMax ELSE p

\* pause() waiting with the predicate of restart()
pause_pred_of_restart(s) == s = RUNNING \/ terminal_status(s)

\* pause() waiting for PAUSED only
pause_pred_no_terminal(s) == s = PAUSED

\* predicate of the wait in pause()
pause_pred(s) == s = PAUSED \/ terminal_status(s)

\* restart() waiting with the predicate of pause()
restart_pred_of_pause(s) == s = PAUSED \/ terminal_status(s)

\* restart() waiting for RUNNING only
restart_pred_no_terminal(s) == s = RUNNING

\* predicate of the wait in restart()
restart_pred(s) == s = RUNNING \/ terminal_status(s)

\* stop() waiting for STOPPED only
stop_pred_stopped_only(s) == s = STOPPED

\* predicate of the wait in stop() and wait()
stop_pred(s) == terminal_status(s)

\* predicate of the paused wait in yield()
yield_pred(sc) == sc = RUNNING \/ sc = STOPPED

\* yield() returning true whatever the slot holds
yield_result_always_true(sc) == TRUE

\* value yield() returns
yield_result(sc) == sc # STOPPED

\* worker_done() with the branches of the conditional exchanged
done_status_swapped(sc) == IF sc # STOPPED THEN STOPPED ELSE FINISHED

\* the bool yield() returned, as kept in yield_ret
Ret(b) == IF b THEN "true" ELSE "false"

\* status worker_done() records
done_status(sc) == IF sc # STOPPED THEN FINISHED ELSE STOPPED

\* worker_done() without set_progress(1)
done_progress_kept(s, p) == p

\* worker_done() calling set_progress(1) whatever the status
done_progress_always(s, p) == clamp(ProgressMax)

\* progress worker_done() leaves: set_progress(1) for FINISHED only
done_progress(s, p) == IF s = FINISHED THEN clamp(ProgressMax) ELSE p

\* operator<<(std::ostream&, Status): the word written for a status
StatusWord(s) ==
    CASE s = RUNNING -> "running"
      [] s = PAUSED -> "paused"
      [] s = STOPPED -> "stopped"
      [] s = FINISHED -> "finished"

\* nothing written yet; percent is NoValue when the percentage part is absent
NoOutput == [status |-> "", percent |-> NoValue]

\* condition under which operator<< writes the percentage part
shows_percent(s, p) == (s = RUNNING \/ s = PAUSED) /\ p > 0

\* ------------------------------------------------- the console program
\* workers the console program manages: the one task of this model
NWorkers == 1

\* largest int, the limit of std::stoi
INT_MAX == 2147483647

\* no command being executed
NoLine == <<>>

\* first words of the command lines typed
Words == {"", "status", "pause", "restart", "stop", "help"}

\* second tokens typed, as sequences of characters
IdTokens ==
    {<<>>, <<"x">>, <<"0">>, <<"1">>, <<"2">>, <<"-", "1">>, <<"1", "x">>,
     <<"x", "1">>, <<"1", "2">>}

\* the token lists boost::split hands to execute_command
Lines ==
    {<<w>> : w \in Words}
        \cup {<<w, i>> : w \in Words, i \in IdTokens}
        \cup {<<"pause", <<"1">>, <<"1">>>>}

DigitChars == <<"0", "1", "2", "3", "4", "5", "6", "7", "8", "9">>

IsDigit(c) == \E k \in 1..Len(DigitChars) : DigitChars[k] = c

DigitValue(c) == (CHOOSE k \in 1..Len(DigitChars) : DigitChars[k] = c) - 1

\* length of the longest prefix of tok made of digits
RECURSIVE DigitPrefixLen(_)
DigitPrefixLen(tok) ==
    IF tok = <<>> \/ ~IsDigit(Head(tok)) THEN 0
    ELSE 1 + DigitPrefixLen(Tail(tok))

\* value of a sequence of digits
RECURSIVE DigitsValue(_)
DigitsValue(ds) ==
    IF ds = <<>> THEN 0
    ELSE 10 * DigitsValue(SubSeq(ds, 1, Len(ds) - 1)) + DigitValue(ds[Len(ds)])

\* std::stoi: optional sign, then the longest run of digits; what follows
\* the digits is ignored
stoi(tok) ==
    LET signed == tok # <<>> /\ (Head(tok) = "-" \/ Head(tok) = "+")
        body == IF signed THEN Tail(tok) ELSE tok
        n == DigitPrefixLen(body)
        v == DigitsValue(SubSeq(body, 1, n))
    IN  IF n = 0 THEN [error |-> "invalid_argument", value |-> 0]
        ELSE IF v > INT_MAX THEN [error |-> "out_of_range", value |-> 0]
        ELSE [error |-> "none",
              value |-> IF Head(tok) = "-" THEN 0 - v ELSE v]

MsgNumber == "Second argument should be a number"
MsgRange == "Worker id should be in [1, n] range"
MsgError == "Error occurred while processing command"
MsgUnrecognized == "Unrecognized command format"
MsgStatus == "Workers status:"

\* message after a call that returned
MsgDone(o) ==
    CASE o = "pause" -> "Worker has been paused"
      [] o = "restart" -> "Worker has been restarted"
      [] o = "stop" -> "Worker has been stopped"

\* execute_command up to the call it makes: the method to call ("none"
\* when it calls nothing) and the message printed before returning
Dispatch(tokens) ==
    IF tokens = <<>> \/ tokens[1] = ""
    THEN [call |-> "none", msg |-> ""]
    ELSE IF Len(tokens) = 1
    THEN IF tokens[1] = "status"
         THEN [call |-> "status", msg |-> MsgStatus]
         ELSE [call |-> "none", msg |-> MsgUnrecognized]
    ELSE IF Len(tokens) = 2
    THEN LET id == stoi(tokens[2])
         IN  IF id.error = "invalid_argument"
             THEN [call |-> "none", msg |-> MsgNumber]
             ELSE IF id.error = "out_of_range" \/ id.value <= 0
                        \/ id.value > NWorkers
             THEN [call |-> "none", msg |-> MsgRange]
             ELSE IF tokens[1] \in {"pause", "restart", "stop"}
             THEN [call |-> tokens[1], msg |-> ""]
             ELSE [call |-> "none", msg |-> MsgUnrecognized]
    ELSE [call |-> "none", msg |-> MsgUnrecognized]

\* predicate a caller blocked in status_cv_ re-evaluates
wait_pred(o, s) ==
    CASE o = "pause" -> pause_pred(s)
      [] o = "restart" -> restart_pred(s)
      [] OTHER -> stop_pred(s)

\* status_cv_.notify_all(): every thread in the wait set becomes runnable
notify_all(p) == [t \in Threads |-> IF p[t] = "waiting" THEN "woken" ELSE p[t]]

\* methods each thread calls: mutating calls from one thread only
Ops(t) == IF t = Controller
          THEN {"pause", "restart", "stop", "wait", "status", "result"}
          ELSE {"wait", "status"}

CallBudget(t) == IF t = Controller THEN MaxCalls ELSE MaxObserverCalls

\* positions in which a thread is about to take status_m_
WantsLock == {"enter", "woken", "yield_enter", "done_enter"}

AfterLock(p) ==
    CASE p = "enter" -> "body"
      [] p = "woken" -> "recheck"
      [] p = "yield_enter" -> "yield_body"
      [] p = "done_enter" -> "done_body"

\* ------------------------------------------------------------------ Init
Init ==
    /\ status_ = RUNNING
    /\ status_change_ = NONE
    /\ progress_ = 0
    /\ mutex = FREE
    /\ pc = [t \in Threads |-> IF t = Worker THEN "payload" ELSE "idle"]
    /\ op = [t \in Callers |-> "none"]
    /\ outcome = [t \in Callers |-> "none"]
    /\ calls = [t \in Callers |-> 0]
    /\ yields = 0
    /\ yield_ret = "none"
    /\ future = "pending"
    /\ ret = NoValue
    /\ valid = TRUE
    /\ got = NoValue
    /\ os = NoOutput
    /\ command = NoLine
    /\ console = ""
    /\ joinable = TRUE

\* ------------------------------------------------------------ the mutex
\* std::unique_lock / std::lock_guard on status_m_, and the re-acquisition
\* at the end of condition_variable::wait
Lock(t) ==
    /\ pc[t] \in WantsLock
    /\ mutex = FREE
    /\ mutex' = t
    /\ pc' = [pc EXCEPT ![t] = AfterLock(pc[t])]
    /\ UNCHANGED <<status_, status_change_, progress_, op, outcome, calls,
                   yields, yield_ret, future, ret, valid, got, os, command, console, joinable>>

\* a wake-up that takes the worker out of the wait without a re-check
SpuriousWake_resumes(t) ==
    /\ pc[t] = "waiting"
    /\ pc' = [pc EXCEPT ![t] = IF t = Worker THEN "payload" ELSE "woken"]
    /\ UNCHANGED <<status_, status_change_, progress_, mutex, op, outcome,
                   calls, yields, yield_ret, future, ret, valid, got, os, command, console, joinable>>

\* a thread blocked in condition_variable::wait may wake without a notify
SpuriousWake(t) ==
    /\ pc[t] = "waiting"
    /\ pc' = [pc EXCEPT ![t] = "woken"]
    /\ UNCHANGED <<status_, status_change_, progress_, mutex, op, outcome,
                   calls, yields, yield_ret, future, ret, valid, got, os, command, console, joinable>>

\* ------------------------------------------------------------- callers
\* a caller enters one of the public methods
Call(t, o) ==
    /\ pc[t] = "idle"
    /\ calls[t] < CallBudget(t)
    /\ o \in Ops(t)
    /\ op[Controller] # Destructor
    /\ pc' = [pc EXCEPT ![t] = IF o = "result" THEN "result_enter" ELSE "enter"]
    /\ op' = [op EXCEPT ![t] = o]
    /\ outcome' = [outcome EXCEPT ![t] = "none"]
    /\ calls' = [calls EXCEPT ![t] = @ + 1]
    /\ UNCHANGED <<status_, status_change_, progress_, mutex, yields,
                   yield_ret, future, ret, valid, got, os, command, console, joinable>>

\* where a call returns to: execute_command when it made the call
ReturnTo(t) == IF t = Controller /\ command # NoLine THEN "report" ELSE "idle"

\* the call ends (normally, with a value, or with std::logic_error)
Leave(t, p, how) ==
    /\ pc' = [p EXCEPT ![t] = ReturnTo(t)]
    /\ outcome' = [outcome EXCEPT ![t] = how]
    /\ mutex' = FREE

\* a wait that blocks without releasing status_m_
WaitOrLeave_keeps_mutex(t, p, ok) ==
    IF ok THEN Leave(t, p, "returned")
    ELSE /\ pc' = [p EXCEPT ![t] = "waiting"]
         /\ mutex' = mutex
         /\ outcome' = outcome

\* condition_variable::wait(lock, pred) entered with the mutex held
WaitOrLeave(t, p, ok) ==
    IF ok THEN Leave(t, p, "returned")
    ELSE /\ pc' = [p EXCEPT ![t] = "waiting"]
         /\ mutex' = FREE
         /\ outcome' = outcome

\* pause() without its precondition check
pause_unchecked(t) ==
    /\ pc[t] = "body" /\ op[t] = "pause"
    /\ status_change_' = PAUSED
    /\ WaitOrLeave(t, pc, pause_pred(status_))
    /\ UNCHANGED <<status_, progress_, op, calls, yields, yield_ret, future, ret, valid, got, os, command, console, joinable>>

pause(t) ==
    /\ pc[t] = "body" /\ op[t] = "pause"
    /\ IF status_ # RUNNING
       THEN /\ Leave(t, pc, "threw")
            /\ UNCHANGED status_change_
       ELSE /\ status_change_' = PAUSED
            /\ WaitOrLeave(t, pc, pause_pred(status_))
    /\ UNCHANGED <<status_, progress_, op, calls, yields, yield_ret, future, ret, valid, got, os, command, console, joinable>>

\* restart() with the precondition of pause()
restart_requires_running(t) ==
    /\ pc[t] = "body" /\ op[t] = "restart"
    /\ IF status_ # RUNNING
       THEN /\ Leave(t, pc, "threw")
            /\ UNCHANGED status_change_
       ELSE /\ status_change_' = RUNNING
            /\ WaitOrLeave(t, notify_all(pc), restart_pred(status_))
    /\ UNCHANGED <<status_, progress_, op, calls, yields, yield_ret, future, ret, valid, got, os, command, console, joinable>>

restart(t) ==
    /\ pc[t] = "body" /\ op[t] = "restart"
    /\ IF status_ # PAUSED
       THEN /\ Leave(t, pc, "threw")
            /\ UNCHANGED status_change_
       ELSE /\ status_change_' = RUNNING
            /\ WaitOrLeave(t, notify_all(pc), restart_pred(status_))
    /\ UNCHANGED <<status_, progress_, op, calls, yields, yield_ret, future, ret, valid, got, os, command, console, joinable>>

\* stop() recording STOPPED itself instead of waiting for the worker
stop_writes_status(t) ==
    /\ pc[t] = "body" /\ op[t] = "stop"
    /\ IF status_ # RUNNING /\ status_ # PAUSED
       THEN /\ Leave(t, pc, "threw")
            /\ UNCHANGED <<status_, status_change_>>
       ELSE /\ status_change_' = STOPPED
            /\ status_' = STOPPED
            /\ Leave(t, notify_all(pc), "returned")
    /\ UNCHANGED <<progress_, op, calls, yields, yield_ret, future, ret, valid, got, os, command, console, joinable>>

\* stop() returning once the request is made, without the wait
stop_no_wait(t) ==
    /\ pc[t] = "body" /\ op[t] = "stop"
    /\ IF status_ # RUNNING /\ status_ # PAUSED
       THEN /\ Leave(t, pc, "threw")
            /\ UNCHANGED status_change_
       ELSE /\ status_change_' = STOPPED
            /\ Leave(t, notify_all(pc), "returned")
    /\ UNCHANGED <<status_, progress_, op, calls, yields, yield_ret, future, ret, valid, got, os, command, console, joinable>>

stop(t) ==
    /\ pc[t] = "body" /\ op[t] = "stop"
    /\ IF status_ # RUNNING /\ status_ # PAUSED
       THEN /\ Leave(t, pc, "threw")
            /\ UNCHANGED status_change_
       ELSE /\ status_change_' = STOPPED
            /\ WaitOrLeave(t, notify_all(pc), stop_pred(status_))
    /\ UNCHANGED <<status_, progress_, op, calls, yields, yield_ret, future, ret, valid, got, os, command, console, joinable>>

\* wait() with its early-return test inverted
wait_inverted(t) ==
    /\ pc[t] = "body" /\ op[t] = "wait"
    /\ IF ~(status_ = STOPPED \/ status_ = FINISHED)
       THEN Leave(t, pc, "returned")
       ELSE WaitOrLeave(t, pc, stop_pred(status_))
    /\ UNCHANGED <<status_, status_change_, progress_, op, calls, yields,
                   yield_ret, future, ret, valid, got, os, command, console, joinable>>

wait(t) ==
    /\ pc[t] = "body" /\ op[t] = "wait"
    /\ IF status_ = STOPPED \/ status_ = FINISHED
       THEN Leave(t, pc, "returned")
       ELSE WaitOrLeave(t, pc, stop_pred(status_))
    /\ UNCHANGED <<status_, status_change_, progress_, op, calls, yields,
                   yield_ret, future, ret, valid, got, os, command, console, joinable>>

\* status(): the value read is kept as the outcome of the call
status(t) ==
    /\ pc[t] = "body" /\ op[t] = "status"
    /\ Leave(t, pc, status_)
    /\ UNCHANGED <<status_, status_change_, progress_, op, calls, yields,
                   yield_ret, future, ret, valid, got, os, command, console, joinable>>

\* a caller woken inside status_cv_.wait re-evaluates its predicate
Recheck(t) ==
    /\ t \in Callers
    /\ pc[t] = "recheck"
    /\ WaitOrLeave(t, pc, wait_pred(op[t], status_))
    /\ UNCHANGED <<status_, status_change_, progress_, op, calls, yields,
                   yield_ret, future, ret, valid, got, os, command, console, joinable>>

\* result() without the valid() test
result_unchecked(t) ==
    /\ pc[t] = "result_enter" /\ op[t] = "result"
    /\ pc' = [pc EXCEPT ![t] = "get"]
    /\ UNCHANGED <<status_, status_change_, progress_, mutex, op, outcome,
                   calls, yields, yield_ret, future, ret, valid, got, os, command, console, joinable>>

\* result() up to future_.get(): std::future_error when future_ is invalid
result(t) ==
    /\ pc[t] = "result_enter" /\ op[t] = "result"
    /\ IF ~valid
       THEN /\ pc' = [pc EXCEPT ![t] = "idle"]
            /\ outcome' = [outcome EXCEPT ![t] = "threw"]
       ELSE /\ pc' = [pc EXCEPT ![t] = "get"]
            /\ UNCHANGED outcome
    /\ UNCHANGED <<status_, status_change_, progress_, mutex, op, calls,
                   yields, yield_ret, future, ret, valid, got, os, command, console, joinable>>

\* future_.get(): blocks until the shared state is ready, hands out the
\* value or rethrows the payload's exception, and leaves future_ invalid
future_get(t) ==
    /\ pc[t] = "get"
    /\ future # "pending"
    /\ valid' = FALSE
    /\ IF future = "value"
       THEN /\ got' = ret
            /\ outcome' = [outcome EXCEPT ![t] = "returned"]
       ELSE /\ got' = got
            /\ outcome' = [outcome EXCEPT ![t] = "rethrew"]
    /\ pc' = [pc EXCEPT ![t] = "idle"]
    /\ UNCHANGED <<status_, status_change_, progress_, mutex, op, calls,
                   yields, yield_ret, future, ret, os, command, console, joinable>>

\* ---------------------------------------------------------- the worker
\* the payload calls yield(p): set_progress runs before the mutex is taken
PayloadYield(p) ==
    /\ pc[Worker] = "payload"
    /\ yields < MaxYields
    /\ progress_' = clamp(p)
    /\ yields' = yields + 1
    /\ pc' = [pc EXCEPT ![Worker] = "yield_enter"]
    /\ UNCHANGED <<status_, status_change_, mutex, op, outcome, calls,
                   yield_ret, future, ret, valid, got, os, command, console, joinable>>

\* yield() leaving the paused wait without recording RUNNING
yield_resume_keeps_status(p) ==
    /\ status_' = status_
    /\ pc' = [notify_all(p) EXCEPT ![Worker] = "payload"]

\* yield() leaves the paused wait (or never blocks in it)
yield_resume(p) ==
    /\ status_' = RUNNING
    /\ pc' = [notify_all(p) EXCEPT ![Worker] = "payload"]

\* yield() entering the pause without status_change_.reset()
yield_keeps_request ==
    /\ pc[Worker] = "yield_body"
    /\ IF status_change_ = PAUSED
       THEN /\ IF yield_pred(status_change_)
               THEN /\ yield_resume(notify_all(pc))
                    /\ yield_ret' = Ret(yield_result(status_change_))
               ELSE /\ status_' = PAUSED
                    /\ pc' = [notify_all(pc) EXCEPT ![Worker] = "waiting"]
                    /\ UNCHANGED yield_ret
            /\ UNCHANGED status_change_
       ELSE /\ yield_ret' = Ret(yield_result(status_change_))
            /\ pc' = [pc EXCEPT ![Worker] = "payload"]
            /\ UNCHANGED <<status_, status_change_>>
    /\ mutex' = FREE
    /\ UNCHANGED <<progress_, op, outcome, calls, yields, future, ret, valid, got, os, command, console, joinable>>

\* yield() resetting a STOPPED request once it has reported it
yield_consumes_stop ==
    /\ pc[Worker] = "yield_body"
    /\ IF status_change_ = PAUSED
       THEN /\ status_change_' = NONE
            /\ IF yield_pred(NONE)
               THEN /\ yield_resume(notify_all(pc))
                    /\ yield_ret' = Ret(yield_result(NONE))
               ELSE /\ status_' = PAUSED
                    /\ pc' = [notify_all(pc) EXCEPT ![Worker] = "waiting"]
                    /\ UNCHANGED yield_ret
       ELSE /\ yield_ret' = Ret(yield_result(status_change_))
            /\ pc' = [pc EXCEPT ![Worker] = "payload"]
            /\ status_change_' = IF status_change_ = STOPPED THEN NONE
                                 ELSE status_change_
            /\ UNCHANGED status_
    /\ mutex' = FREE
    /\ UNCHANGED <<progress_, op, outcome, calls, yields, future, ret, valid, got, os, command, console, joinable>>

\* yield() entering the paused wait without recording PAUSED
yield_wait_without_status ==
    /\ pc[Worker] = "yield_body"
    /\ IF status_change_ = PAUSED
       THEN /\ status_change_' = NONE
            /\ IF yield_pred(NONE)
               THEN /\ yield_resume(notify_all(pc))
                    /\ yield_ret' = Ret(yield_result(NONE))
               ELSE /\ status_' = status_
                    /\ pc' = [notify_all(pc) EXCEPT ![Worker] = "waiting"]
                    /\ UNCHANGED yield_ret
       ELSE /\ yield_ret' = Ret(yield_result(status_change_))
            /\ pc' = [pc EXCEPT ![Worker] = "payload"]
            /\ UNCHANGED <<status_, status_change_>>
    /\ mutex' = FREE
    /\ UNCHANGED <<progress_, op, outcome, calls, yields, future, ret, valid, got, os, command, console, joinable>>

\* yield(), from taking the mutex to its return or to the paused wait
yield ==
    /\ pc[Worker] = "yield_body"
    /\ IF status_change_ = PAUSED
       THEN /\ status_change_' = NONE
            /\ IF yield_pred(NONE)
               THEN /\ yield_resume(notify_all(pc))
                    /\ yield_ret' = Ret(yield_result(NONE))
               ELSE /\ status_' = PAUSED
                    /\ pc' = [notify_all(pc) EXCEPT ![Worker] = "waiting"]
                    /\ UNCHANGED yield_ret
       ELSE /\ yield_ret' = Ret(yield_result(status_change_))
            /\ pc' = [pc EXCEPT ![Worker] = "payload"]
            /\ UNCHANGED <<status_, status_change_>>
    /\ mutex' = FREE
    /\ UNCHANGED <<progress_, op, outcome, calls, yields, future, ret, valid, got, os, command, console, joinable>>

\* the paused wait without a predicate: any wake-up resumes the worker
yield_wake_no_pred ==
    /\ pc[Worker] = "recheck"
    /\ yield_resume(pc)
    /\ yield_ret' = Ret(yield_result(status_change_))
    /\ mutex' = FREE
    /\ UNCHANGED <<status_change_, progress_, op, outcome, calls, yields,
                   future, ret, valid, got, os, command, console, joinable>>

\* the paused wait with its predicate negated
yield_wake_inverted ==
    /\ pc[Worker] = "recheck"
    /\ IF ~yield_pred(status_change_)
       THEN /\ yield_resume(pc)
            /\ yield_ret' = Ret(yield_result(status_change_))
       ELSE /\ pc' = [pc EXCEPT ![Worker] = "waiting"]
            /\ UNCHANGED <<status_, yield_ret>>
    /\ mutex' = FREE
    /\ UNCHANGED <<status_change_, progress_, op, outcome, calls, yields,
                   future, ret, valid, got, os, command, console, joinable>>

\* the worker, woken in the paused wait, re-evaluates the predicate
yield_wake ==
    /\ pc[Worker] = "recheck"
    /\ IF yield_pred(status_change_)
       THEN /\ yield_resume(pc)
            /\ yield_ret' = Ret(yield_result(status_change_))
       ELSE /\ pc' = [pc EXCEPT ![Worker] = "waiting"]
            /\ UNCHANGED <<status_, yield_ret>>
    /\ mutex' = FREE
    /\ UNCHANGED <<status_change_, progress_, op, outcome, calls, yields,
                   future, ret, valid, got, os, command, console, joinable>>

\* the payload function returns: work() goes on to worker_done()
\* work() without the call of worker_done()
PayloadReturn_skips_done ==
    /\ pc[Worker] = "payload"
    /\ ret' = PayloadValue(yields)
    /\ pc' = [pc EXCEPT ![Worker] = "deliver"]
    /\ UNCHANGED <<status_, status_change_, progress_, mutex, op, outcome,
                   calls, yields, yield_ret, future, valid, got, os, command, console, joinable>>

PayloadReturn ==
    /\ pc[Worker] = "payload"
    /\ ret' = PayloadValue(yields)
    /\ pc' = [pc EXCEPT ![Worker] = "done_enter"]
    /\ UNCHANGED <<status_, status_change_, progress_, mutex, op, outcome,
                   calls, yields, yield_ret, future, valid, got, os, command, console, joinable>>

\* the payload function throws: work() is left by the exception
PayloadThrow ==
    /\ pc[Worker] = "payload"
    /\ pc' = [pc EXCEPT ![Worker] = "unwind"]
    /\ UNCHANGED <<status_, status_change_, progress_, mutex, op, outcome,
                   calls, yields, yield_ret, future, ret, valid, got, os, command, console, joinable>>

\* worker_done() with notify_one in place of notify_all
worker_done_notify_one ==
    /\ pc[Worker] = "done_body"
    /\ status_' = done_status(status_change_)
    /\ progress_' = done_progress(status_', progress_)
    /\ \/ /\ \A t \in Callers : pc[t] # "waiting"
          /\ pc' = [pc EXCEPT ![Worker] = "deliver"]
       \/ \E t \in Callers :
             /\ pc[t] = "waiting"
             /\ pc' = [pc EXCEPT ![t] = "woken", ![Worker] = "deliver"]
    /\ mutex' = FREE
    /\ UNCHANGED <<status_change_, op, outcome, calls, yields, yield_ret,
                   future, ret, valid, got, os, command, console, joinable>>

worker_done ==
    /\ pc[Worker] = "done_body"
    /\ status_' = done_status(status_change_)
    /\ progress_' = done_progress(status_', progress_)
    /\ pc' = [notify_all(pc) EXCEPT ![Worker] = "deliver"]
    /\ mutex' = FREE
    /\ UNCHANGED <<status_change_, op, outcome, calls, yields, yield_ret,
                   future, ret, valid, got, os, command, console, joinable>>

\* work() ends: std::async stores the value or the exception in the shared
\* state of future_ and the thread exits
work_exit ==
    /\ pc[Worker] \in {"deliver", "unwind"}
    /\ future' = IF pc[Worker] = "deliver" THEN "value" ELSE "exception"
    /\ pc' = [pc EXCEPT ![Worker] = "exited"]
    /\ UNCHANGED <<status_, status_change_, progress_, mutex, op, outcome,
                   calls, yields, yield_ret, ret, valid, got, os, command, console, joinable>>

\* ------------------------------------------------------------------ Next
Next ==
    \/ \E t \in Threads : Lock(t)
    \/ \E t \in Threads : SpuriousWake(t)
    \/ \E t \in Callers : \E o \in Ops(t) : Call(t, o)
    \/ \E t \in Callers : pause(t)
    \/ \E t \in Callers : restart(t)
    \/ \E t \in Callers : stop(t)
    \/ \E t \in Callers : wait(t)
    \/ \E t \in Callers : status(t)
    \/ \E t \in Callers : Recheck(t)
    \/ \E t \in Callers : result(t)
    \/ \E t \in Callers : future_get(t)
    \/ \E p \in ProgressInputs : PayloadYield(p)
    \/ yield
    \/ yield_wake
    \/ PayloadReturn
    \/ PayloadThrow
    \/ worker_done
    \/ work_exit

Spec == Init /\ [][Next]_vars

TypeOK ==
    /\ status_ \in Status
    /\ status_change_ \in {NONE, PAUSED, RUNNING, STOPPED}
    /\ progress_ \in ProgressMin..ProgressMax
    /\ mutex \in Threads \cup {FREE}
    /\ yields \in 0..MaxYields
    /\ future \in {"pending", "value", "exception"}
    /\ valid \in BOOLEAN

\* -------------------------------------------------------------- fairness
\* the payload goes on: it calls yield again, returns or throws
PayloadStep ==
    \/ \E p \in ProgressInputs : PayloadYield(p)
    \/ PayloadReturn
    \/ PayloadThrow

\* a caller inside a method runs on; whether it calls again is its choice
CallerStep(t) ==
    \/ pause(t) \/ restart(t) \/ stop(t) \/ wait(t) \/ status(t) \/ Recheck(t)
    \/ result(t) \/ future_get(t)

\* fair scheduling: every runnable thread eventually runs and a thread that
\* keeps asking for status_m_ eventually gets it; spurious wake-ups and new
\* calls are never forced
FairSpec ==
    /\ Spec
    /\ WF_vars(PayloadStep)
    /\ WF_vars(yield)
    /\ WF_vars(yield_wake)
    /\ WF_vars(worker_done)
    /\ WF_vars(work_exit)
    /\ \A t \in Callers : WF_vars(CallerStep(t))
    /\ \A t \in Threads : SF_vars(Lock(t))

\* ------------------------------------------------- two mutating callers
\* against the documented contract a second thread calls stop() on the task
\* the controller has paused, before or while the controller's restart()
\* runs
RaceStop(t) ==
    /\ pc[t] = "idle"
    /\ calls[t] < CallBudget(t)
    /\ \/ op[Controller] = "pause" /\ outcome[Controller] = "returned"
          /\ status_ = PAUSED
       \/ op[Controller] = "restart" /\ outcome[Controller] = "none"
    /\ pc' = [pc EXCEPT ![t] = "enter"]
    /\ op' = [op EXCEPT ![t] = "stop"]
    /\ outcome' = [outcome EXCEPT ![t] = "none"]
    /\ calls' = [calls EXCEPT ![t] = @ + 1]
    /\ UNCHANGED <<status_, status_change_, progress_, mutex, yields,
                   yield_ret, future, ret, valid, got, os, command, console, joinable>>

RaceNext == Next \/ RaceStop(Observer)

RaceSpec == Init /\ [][RaceNext]_vars

RaceFairSpec ==
    /\ RaceSpec
    /\ WF_vars(PayloadStep)
    /\ WF_vars(yield)
    /\ WF_vars(yield_wake)
    /\ WF_vars(worker_done)
    /\ WF_vars(work_exit)
    /\ \A t \in Callers : WF_vars(CallerStep(t))
    /\ \A t \in Threads : SF_vars(Lock(t))

\* ------------------------------------------------------- the destructor
\* the owner destroys the task; no other thread is using it nor will
DestroyCall(t) ==
    /\ t = Controller
    /\ pc[t] = "idle"
    /\ op[t] # Destructor
    /\ pc[Observer] = "idle"
    /\ pc' = [pc EXCEPT ![t] = "dtor_future"]
    /\ op' = [op EXCEPT ![t] = Destructor]
    /\ outcome' = [outcome EXCEPT ![t] = "none"]
    /\ UNCHANGED <<status_, status_change_, progress_, mutex, calls, yields,
                   yield_ret, future, ret, valid, got, os, command, console, joinable>>

\* a future_ whose destructor lets go of the shared state without waiting
future_dtor_detaches(t) ==
    /\ pc[t] = "dtor_future"
    /\ pc' = [pc EXCEPT ![t] = "dtor_base"]
    /\ UNCHANGED <<status_, status_change_, progress_, mutex, op, outcome,
                   calls, yields, yield_ret, future, ret, valid, got, os, command, console, joinable>>

\* ~AsyncWorker destroys the member future_: the destructor of a future
\* obtained from std::async blocks until the shared state is ready; a
\* future_ left invalid by get() has no shared state to wait for
future_dtor(t) ==
    /\ pc[t] = "dtor_future"
    /\ ~valid \/ future # "pending"
    /\ pc' = [pc EXCEPT ![t] = "dtor_base"]
    /\ UNCHANGED <<status_, status_change_, progress_, mutex, op, outcome,
                   calls, yields, yield_ret, future, ret, valid, got, os, command, console, joinable>>

\* ~BaseWorker: std::terminate unless the status is terminal
BaseWorker_dtor(t) ==
    /\ pc[t] = "dtor_base"
    /\ pc' = [pc EXCEPT ![t] = IF ~terminal_status(status_)
                                THEN "terminated" ELSE "destroyed"]
    /\ UNCHANGED <<status_, status_change_, progress_, mutex, op, outcome,
                   calls, yields, yield_ret, future, ret, valid, got, os, command, console, joinable>>

DtorNext ==
    \/ Next
    \/ DestroyCall(Controller)
    \/ future_dtor(Controller)
    \/ BaseWorker_dtor(Controller)

DtorSpec == Init /\ [][DtorNext]_vars

\* fair scheduling, the destroying thread included
DtorFairSpec ==
    /\ DtorSpec
    /\ WF_vars(PayloadStep)
    /\ WF_vars(yield)
    /\ WF_vars(yield_wake)
    /\ WF_vars(worker_done)
    /\ WF_vars(work_exit)
    /\ \A t \in Callers : WF_vars(CallerStep(t))
    /\ WF_vars(future_dtor(Controller))
    /\ WF_vars(BaseWorker_dtor(Controller))
    /\ \A t \in Threads : SF_vars(Lock(t))

\* ---------------------------------------------------- the stream output
\* a thread writes the task to a stream: operator<< starts with status()
PrintCall(t) ==
    /\ pc[t] = "idle"
    /\ calls[t] < CallBudget(t)
    /\ pc' = [pc EXCEPT ![t] = "enter"]
    /\ op' = [op EXCEPT ![t] = "print"]
    /\ outcome' = [outcome EXCEPT ![t] = "none"]
    /\ calls' = [calls EXCEPT ![t] = @ + 1]
    /\ UNCHANGED <<status_, status_change_, progress_, mutex, yields,
                   yield_ret, future, ret, valid, got, os, command, console, joinable>>

\* worker.status() inside operator<<, and the name and status written
print_status(t) ==
    /\ pc[t] = "body" /\ op[t] = "print"
    /\ outcome' = [outcome EXCEPT ![t] = status_]
    /\ os' = [status |-> StatusWord(status_), percent |-> NoValue]
    /\ pc' = [pc EXCEPT ![t] = "print_test"]
    /\ mutex' = FREE
    /\ UNCHANGED <<status_, status_change_, progress_, op, calls, yields,
                   yield_ret, future, ret, valid, got, command, console, joinable>>

\* the test that decides on the percentage part; worker.progress() is read
\* without the mutex
print_test(t) ==
    /\ pc[t] = "print_test"
    /\ pc' = [pc EXCEPT ![t] = IF shows_percent(outcome[t], progress_)
                                THEN "print_percent" ELSE "idle"]
    /\ UNCHANGED <<status_, status_change_, progress_, mutex, op, outcome,
                   calls, yields, yield_ret, future, ret, valid, got, os, command, console, joinable>>

\* the percentage part: worker.progress() is read a second time
print_percent(t) ==
    /\ pc[t] = "print_percent"
    /\ os' = [os EXCEPT !.percent = progress_]
    /\ pc' = [pc EXCEPT ![t] = "idle"]
    /\ UNCHANGED <<status_, status_change_, progress_, mutex, op, outcome,
                   calls, yields, yield_ret, future, ret, valid, got, command, console, joinable>>

PrintNext ==
    \/ Next
    \/ PrintCall(Observer)
    \/ print_status(Observer)
    \/ print_test(Observer)
    \/ print_percent(Observer)

PrintSpec == Init /\ [][PrintNext]_vars

\* ---------------------------------------------------- the console loop
\* mainloop reads a line and splits it into tokens
ReadCommand(line) ==
    /\ pc[Controller] = "idle"
    /\ calls[Controller] < MaxCommands
    /\ command' = line
    /\ console' = ""
    /\ pc' = [pc EXCEPT ![Controller] = "execute"]
    /\ calls' = [calls EXCEPT ![Controller] = @ + 1]
    /\ UNCHANGED <<status_, status_change_, progress_, mutex, op, outcome,
                   yields, yield_ret, future, ret, valid, got, os, joinable>>

\* execute_command up to its return or to the call of pause / restart /
\* stop / operator<< on the worker
execute_command ==
    /\ pc[Controller] = "execute"
    /\ LET d == Dispatch(command)
       IN  /\ console' = d.msg
           /\ IF d.call = "none"
              THEN /\ pc' = [pc EXCEPT ![Controller] = "idle"]
                   /\ command' = NoLine
                   /\ UNCHANGED <<op, outcome>>
              ELSE /\ pc' = [pc EXCEPT ![Controller] = "enter"]
                   /\ op' = [op EXCEPT ![Controller] =
                                IF d.call = "status" THEN "print" ELSE d.call]
                   /\ outcome' = [outcome EXCEPT ![Controller] = "none"]
                   /\ command' = IF d.call = "status" THEN NoLine ELSE command
    /\ UNCHANGED <<status_, status_change_, progress_, mutex, calls, yields,
                   yield_ret, future, ret, valid, got, os, joinable>>

\* the call returned or threw std::logic_error: execute_command prints the
\* message and returns to mainloop
Report ==
    /\ pc[Controller] = "report"
    /\ console' = IF outcome[Controller] = "threw" THEN MsgError
                  ELSE MsgDone(op[Controller])
    /\ command' = NoLine
    /\ pc' = [pc EXCEPT ![Controller] = "idle"]
    /\ UNCHANGED <<status_, status_change_, progress_, mutex, op, outcome,
                   calls, yields, yield_ret, future, ret, valid, got, os, joinable>>

\* the console program: the thread of mainloop, the main thread in wait(),
\* and the worker
ConsoleNext ==
    \/ \E t \in Threads : Lock(t)
    \/ \E t \in Threads : SpuriousWake(t)
    \/ \E line \in Lines : ReadCommand(line)
    \/ execute_command
    \/ Report
    \/ pause(Controller)
    \/ restart(Controller)
    \/ stop(Controller)
    \/ print_status(Controller)
    \/ print_test(Controller)
    \/ print_percent(Controller)
    \/ Call(Observer, "wait")
    \/ wait(Observer)
    \/ \E t \in Callers : Recheck(t)
    \/ \E p \in ProgressInputs : PayloadYield(p)
    \/ yield
    \/ yield_wake
    \/ PayloadReturn
    \/ PayloadThrow
    \/ worker_done
    \/ work_exit

ConsoleSpec == Init /\ [][ConsoleNext]_vars

\* ------------------------------------------------- the documented usage
\* the calls main() of the README example makes on its worker, in order
UsageSequence == <<"pause", "restart", "result">>

\* main() makes its next call; an exception of the previous one ended it
UsageCall(o) ==
    /\ pc[Controller] = "idle"
    /\ calls[Controller] < Len(UsageSequence)
    /\ o = UsageSequence[calls[Controller] + 1]
    /\ calls[Controller] = 0 \/ outcome[Controller] = "returned"
    /\ pc' = [pc EXCEPT ![Controller] =
                 IF o = "result" THEN "result_enter" ELSE "enter"]
    /\ op' = [op EXCEPT ![Controller] = o]
    /\ outcome' = [outcome EXCEPT ![Controller] = "none"]
    /\ calls' = [calls EXCEPT ![Controller] = @ + 1]
    /\ UNCHANGED <<status_, status_change_, progress_, mutex, yields,
                   yield_ret, future, ret, valid, got, os, command, console, joinable>>

\* the README program: main() and the worker
UsageNext ==
    \/ \E t \in Threads : Lock(t)
    \/ \E t \in Threads : SpuriousWake(t)
    \/ \E o \in {"pause", "restart", "result"} : UsageCall(o)
    \/ pause(Controller)
    \/ restart(Controller)
    \/ Recheck(Controller)
    \/ result(Controller)
    \/ future_get(Controller)
    \/ \E p \in ProgressInputs : PayloadYield(p)
    \/ yield
    \/ yield_wake
    \/ PayloadReturn
    \/ PayloadThrow
    \/ worker_done
    \/ work_exit

UsageSpec == Init /\ [][UsageNext]_vars

\* ------------------------------------- the thread-based variant, Worker
\* (src/worker.cpp): thread_ runs Worker::work, the payload do_work calls
\* status_update, stop() joins thread_, the destructor calls stop()

\* the destructor of Worker, as a value of op
Worker_Destructor == "~Worker"

\* status_cv_.notify_one(): one thread of the wait set, if there is one,
\* becomes runnable; the result is the set of possible position maps
notify_one(p) ==
    IF \A t \in Threads : p[t] # "waiting" THEN {p}
    ELSE {[p EXCEPT ![t] = "woken"] : t \in {u \in Threads : p[u] = "waiting"}}

\* predicate of the wait in Worker::pause
Worker_pause_pred(s) == s = PAUSED \/ s = FINISHED

\* predicate of the wait in Worker::restart
Worker_restart_pred(s) == s = RUNNING \/ s = FINISHED

\* the owner of the Worker calls pause, restart or stop
Worker_Call(o) ==
    /\ pc[Controller] = "idle"
    /\ calls[Controller] < MaxCalls
    /\ op[Controller] # Worker_Destructor
    /\ o \in {"pause", "restart", "stop"}
    /\ pc' = [pc EXCEPT ![Controller] = "enter"]
    /\ op' = [op EXCEPT ![Controller] = o]
    /\ outcome' = [outcome EXCEPT ![Controller] = "none"]
    /\ calls' = [calls EXCEPT ![Controller] = @ + 1]
    /\ UNCHANGED <<status_, status_change_, progress_, mutex, yields,
                   yield_ret, future, ret, valid, got, os, command, console, joinable>>

\* the owner destroys the Worker: ~Worker starts with a call of stop()
Worker_Destroy ==
    /\ pc[Controller] = "idle"
    /\ op[Controller] # Worker_Destructor
    /\ pc' = [pc EXCEPT ![Controller] = "enter"]
    /\ op' = [op EXCEPT ![Controller] = Worker_Destructor]
    /\ outcome' = [outcome EXCEPT ![Controller] = "none"]
    /\ UNCHANGED <<status_, status_change_, progress_, mutex, calls, yields,
                   yield_ret, future, ret, valid, got, os, command, console, joinable>>

Worker_pause ==
    /\ pc[Controller] = "body" /\ op[Controller] = "pause"
    /\ IF status_ # RUNNING
       THEN /\ Leave(Controller, pc, "threw")
            /\ UNCHANGED status_change_
       ELSE /\ status_change_' = PAUSED
            /\ WaitOrLeave(Controller, pc, Worker_pause_pred(status_))
    /\ UNCHANGED <<status_, progress_, op, calls, yields, yield_ret, future,
                   ret, valid, got, os, command, console, joinable>>

Worker_restart ==
    /\ pc[Controller] = "body" /\ op[Controller] = "restart"
    /\ IF status_ # PAUSED
       THEN /\ Leave(Controller, pc, "threw")
            /\ UNCHANGED status_change_
       ELSE /\ status_change_' = RUNNING
            /\ \E p \in notify_one(pc) :
                  WaitOrLeave(Controller, p, Worker_restart_pred(status_))
    /\ UNCHANGED <<status_, progress_, op, calls, yields, yield_ret, future,
                   ret, valid, got, os, command, console, joinable>>

\* a caller woken inside the wait of pause or restart re-evaluates it
Worker_Recheck ==
    /\ pc[Controller] = "recheck"
    /\ WaitOrLeave(Controller, pc,
                   IF op[Controller] = "pause" THEN Worker_pause_pred(status_)
                   ELSE Worker_restart_pred(status_))
    /\ UNCHANGED <<status_, status_change_, progress_, op, calls, yields,
                   yield_ret, future, ret, valid, got, os, command, console, joinable>>

\* Worker::stop up to thread_.join(), called by the owner or by ~Worker,
\* which swallows the std::logic_error
Worker_stop ==
    /\ pc[Controller] = "body" /\ op[Controller] \in {"stop", Worker_Destructor}
    /\ IF status_ # RUNNING /\ status_ # PAUSED
       THEN /\ pc' = [pc EXCEPT ![Controller] =
                         IF op[Controller] = Worker_Destructor THEN "dtor_thread"
                         ELSE "idle"]
            /\ outcome' = [outcome EXCEPT ![Controller] = "threw"]
            /\ UNCHANGED status_change_
       ELSE /\ status_change_' = STOPPED
            /\ \E p \in notify_one(pc) :
                  pc' = [p EXCEPT ![Controller] = "join"]
            /\ UNCHANGED outcome
    /\ mutex' = FREE
    /\ UNCHANGED <<status_, progress_, op, calls, yields, yield_ret, future,
                   ret, valid, got, os, command, console, joinable>>

\* thread_.join() returns once Worker::work has ended
Worker_join ==
    /\ pc[Controller] = "join"
    /\ pc[Worker] = "exited"
    /\ joinable' = FALSE
    /\ pc' = [pc EXCEPT ![Controller] =
                 IF op[Controller] = Worker_Destructor THEN "dtor_thread" ELSE "idle"]
    /\ outcome' = [outcome EXCEPT ![Controller] = "returned"]
    /\ UNCHANGED <<status_, status_change_, progress_, mutex, op, calls,
                   yields, yield_ret, future, ret, valid, got, os, command, console>>

\* the end of ~Worker: the member thread_ is destroyed; the destructor of
\* a joinable std::thread calls std::terminate
Worker_thread_dtor ==
    /\ pc[Controller] = "dtor_thread"
    /\ pc' = [pc EXCEPT ![Controller] =
                 IF joinable THEN "terminated" ELSE "destroyed"]
    /\ UNCHANGED <<status_, status_change_, progress_, mutex, op, outcome,
                   calls, yields, yield_ret, future, ret, valid, got, os,
                   command, console, joinable>>

\* do_work calls status_update
Worker_PayloadYield ==
    /\ pc[Worker] = "payload"
    /\ yields < MaxYields
    /\ yields' = yields + 1
    /\ pc' = [pc EXCEPT ![Worker] = "yield_enter"]
    /\ UNCHANGED <<status_, status_change_, progress_, mutex, op, outcome,
                   calls, yield_ret, future, ret, valid, got, os, command, console, joinable>>

\* Worker::status_update, from taking the mutex to its return or its wait
Worker_status_update ==
    /\ pc[Worker] = "yield_body"
    /\ IF status_change_ = PAUSED
       THEN /\ status_' = PAUSED
            /\ status_change_' = NONE
            /\ \E p \in notify_one(pc) :
                  pc' = [p EXCEPT ![Worker] = "waiting"]
            /\ UNCHANGED yield_ret
       ELSE /\ status_change_' =
                  IF status_change_ = STOPPED THEN NONE ELSE status_change_
            /\ yield_ret' = Ret(status_change_ # STOPPED)
            /\ pc' = [pc EXCEPT ![Worker] = "payload"]
            /\ UNCHANGED status_
    /\ mutex' = FREE
    /\ UNCHANGED <<progress_, op, outcome, calls, yields, future, ret, valid,
                   got, os, command, console, joinable>>

\* the worker, woken in the wait of status_update, re-evaluates the
\* predicate; leaving the wait it goes on to the test for STOPPED
Worker_status_update_wake ==
    /\ pc[Worker] = "recheck"
    /\ IF yield_pred(status_change_)
       THEN /\ status_change_' =
                  IF status_change_ = STOPPED THEN NONE ELSE status_change_
            /\ yield_ret' = Ret(status_change_ # STOPPED)
            /\ pc' = [pc EXCEPT ![Worker] = "payload"]
       ELSE /\ pc' = [pc EXCEPT ![Worker] = "waiting"]
            /\ UNCHANGED <<status_change_, yield_ret>>
    /\ mutex' = FREE
    /\ UNCHANGED <<status_, progress_, op, outcome, calls, yields, future,
                   ret, valid, got, os, command, console, joinable>>

\* do_work returns: Worker::work goes on to take the mutex
Worker_PayloadReturn ==
    /\ pc[Worker] = "payload"
    /\ pc' = [pc EXCEPT ![Worker] = "done_enter"]
    /\ UNCHANGED <<status_, status_change_, progress_, mutex, op, outcome,
                   calls, yields, yield_ret, future, ret, valid, got, os,
                   command, console, joinable>>

\* the end of Worker::work: the final status is recorded, nobody is
\* notified, and the thread ends
Worker_work ==
    /\ pc[Worker] = "done_body"
    /\ status_' = done_status(status_change_)
    /\ pc' = [pc EXCEPT ![Worker] = "exited"]
    /\ mutex' = FREE
    /\ UNCHANGED <<status_change_, progress_, op, outcome, calls, yields,
                   yield_ret, future, ret, valid, got, os, command, console, joinable>>

WorkerNext ==
    \/ \E t \in Threads : Lock(t)
    \/ \E t \in Threads : SpuriousWake(t)
    \/ \E o \in {"pause", "restart", "stop"} : Worker_Call(o)
    \/ Worker_Destroy
    \/ Worker_pause
    \/ Worker_restart
    \/ Worker_Recheck
    \/ Worker_stop
    \/ Worker_join
    \/ Worker_thread_dtor
    \/ Worker_PayloadYield
    \/ Worker_status_update
    \/ Worker_status_update_wake
    \/ Worker_PayloadReturn
    \/ Worker_work

WorkerSpec == Init /\ [][WorkerNext]_vars

\* ----------------------------------------------------------- vocabulary
\* the worker is inside the paused wait of yield()
InPausedWait == pc[Worker] \in {"waiting", "woken", "recheck"}

\* the payload function was left by an exception
PayloadThrew == pc[Worker] = "unwind" \/ future = "exception"

\* the last call of thread t was method o and it returned normally
Returned(t, o) == op[t] = o /\ outcome[t] = "returned"

\* the last call of thread t was method o and it threw std::logic_error
Threw(t, o) == op[t] = o /\ outcome[t] = "threw"

\* thread t is inside method o, past the precondition, blocked or re-checking
Accepted(t, o) == op[t] = o /\ pc[t] \in {"waiting", "woken", "recheck"}

\* method o is refused in status s
Rejected(o, s) ==
    \/ o = "pause" /\ s # RUNNING
    \/ o = "restart" /\ s # PAUSED
    \/ o = "stop" /\ terminal_status(s)

LegalTransitions ==
    {<<RUNNING, PAUSED>>, <<PAUSED, RUNNING>>, <<RUNNING, STOPPED>>,
     <<PAUSED, STOPPED>>, <<RUNNING, FINISHED>>}

\* ----------------------------------------------------------------- C1
\* C1: a status that is STOPPED or FINISHED is never changed again by any
\* step of any thread, and status is RUNNING or PAUSED until then.
C1_TerminalIsFinal ==
    /\ [](status_ \in Status)
    /\ [][terminal_status(status_) => status_' = status_]_vars

\* a terminal task on which the controller has gone on calling
C1_Witness ==
    /\ status_ = STOPPED
    /\ Returned(Controller, "stop") \/ Threw(Controller, "pause")
    /\ calls[Controller] >= 2
    /\ pc[Worker] = "exited"

\* ----------------------------------------------------------------- C2
\* C2: every change of status_ is one of the five legal transitions and is
\* made in a critical section of the worker thread.
C2_LegalTransitions ==
    [][status_' # status_ =>
          /\ <<status_, status_'>> \in LegalTransitions
          /\ mutex = Worker]_vars

\* a task that was paused, resumed and has finished
C2_Witness ==
    /\ status_ = FINISHED
    /\ Returned(Controller, "restart")

\* ----------------------------------------------------------------- C3
\* C3: after stop() has returned to the single controller, status is
\* STOPPED.
C3_StopReturnsStopped ==
    Returned(Controller, "stop") => status_ = STOPPED

\* stop() returned although the payload never called yield
C3_Witness ==
    /\ Returned(Controller, "stop")
    /\ yields = 0
    /\ calls[Controller] = 1

\* ----------------------------------------------------------------- C4
\* C4: when stop() has returned, the worker thread has left
\* AsyncWorker::work and delivered the result to the future.
C4_StopReturnsAfterExit ==
    Returned(Controller, "stop") => pc[Worker] = "exited" /\ future # "pending"

\* ----------------------------------------------------------------- C5
\* C5: a worker thread that has left AsyncWorker::work, by a return or by
\* an exception of the payload, has left the task in a terminal status.
C5_ThrowStillTerminal ==
    pc[Worker] = "exited" => terminal_status(status_)

\* ----------------------------------------------------------------- C6
\* C6: a pause / restart / stop whose precondition fails ends in the same
\* step with std::logic_error, without entering the condition variable,
\* and leaves status, the pending change and progress as they were.
C6_RejectedCallHasNoEffect ==
    [][\A t \in Callers :
          (pc[t] = "body" /\ pc'[t] # "body" /\ Rejected(op[t], status_)) =>
              /\ pc'[t] = "idle"
              /\ outcome'[t] = "threw"
              /\ status_' = status_
              /\ status_change_' = status_change_
              /\ progress_' = progress_]_vars

\* a second pause() refused on a paused task, the worker still waiting
C6_Witness ==
    /\ Threw(Controller, "pause")
    /\ status_ = PAUSED
    /\ status_change_ = NONE
    /\ InPausedWait

\* ----------------------------------------------------------------- C7
\* C7: after pause() has returned to the single controller, status is
\* PAUSED with the worker inside the paused wait of yield, or FINISHED.
C7_PauseReturnsPausedOrFinished ==
    Returned(Controller, "pause") =>
        \/ status_ = PAUSED /\ InPausedWait
        \/ status_ = FINISHED

\* pause() returned with the worker blocked
C7_Witness ==
    /\ Returned(Controller, "pause")
    /\ status_ = PAUSED
    /\ pc[Worker] = "waiting"

\* ----------------------------------------------------------------- C8
\* C8: under fair scheduling an accepted pause() returns, unless the
\* payload leaves by an exception instead of yielding or returning.
C8_PauseReturns ==
    Accepted(Controller, "pause") ~>
        (Returned(Controller, "pause") \/ PayloadThrew)

\* pause() returned because the payload returned without yielding
C8_Witness ==
    /\ Returned(Controller, "pause")
    /\ status_ = FINISHED
    /\ yields = 0

\* ----------------------------------------------------------------- C9
\* C9: under fair scheduling an accepted restart() returns.
C9_RestartReturns ==
    Accepted(Controller, "restart") ~> Returned(Controller, "restart")

\* restart() returned although the payload finished right after resuming
C9_Witness ==
    /\ Returned(Controller, "restart")
    /\ status_ = FINISHED
    /\ yields = 1

\* ---------------------------------------------------------------- C10
\* C10: after restart() has returned to the single controller, the worker
\* is outside the paused wait and status is not PAUSED.
C10_RestartReturnsResumed ==
    Returned(Controller, "restart") =>
        /\ ~InPausedWait
        /\ status_ \in {RUNNING, STOPPED, FINISHED}

\* restart() returned with the worker running the payload again
C10_Witness ==
    /\ Returned(Controller, "restart")
    /\ status_ = RUNNING
    /\ pc[Worker] = "payload"

\* ---------------------------------------------------------------- C11
\* C11: under fair scheduling a stop() accepted on a live task returns,
\* wherever the worker is when the request is made.
C11_StopReturns ==
    Accepted(Controller, "stop") ~> Returned(Controller, "stop")

\* ---------------------------------------------------------------- C12
\* C12: while the payload has not called yield, an accepted pause() or
\* stop() does not stay blocked: it returns (or the payload yields after
\* all).
C12_NoYieldNoDeadlock ==
    ((Accepted(Controller, "pause") \/ Accepted(Controller, "stop"))
        /\ yields = 0)
    ~> (outcome[Controller] = "returned" \/ yields > 0)

\* ---------------------------------------------------------------- C13
\* restart() of the controller and stop() of a second thread are both in
\* progress
Racing ==
    /\ op[Controller] = "restart" /\ outcome[Controller] = "none"
    /\ op[Observer] = "stop" /\ outcome[Observer] = "none"

\* C13: when restart() and stop() race on a paused task, the slot holds
\* one of the two requests once both are accepted, and (for a payload that
\* returns, the controller making no further call) both calls end and the
\* task becomes terminal with no thread left blocked.
C13_RestartStopRace ==
    /\ [](Accepted(Controller, "restart") /\ Accepted(Observer, "stop")
            => status_change_ \in {RUNNING, STOPPED})
    /\ Racing ~>
          \/ PayloadThrew
          \/ op[Controller] # "restart"
          \/ /\ terminal_status(status_)
             /\ outcome[Controller] # "none"
             /\ outcome[Observer] # "none"
             /\ pc[Worker] \in {"deliver", "exited"}

\* both calls returned although restart() overwrote the stop request
C13_Witness ==
    /\ Returned(Controller, "restart")
    /\ Returned(Observer, "stop")
    /\ status_ = FINISHED
    /\ status_change_ = RUNNING

\* ---------------------------------------------------------------- C14
\* C14: under fair scheduling every caller that is blocked in pause(),
\* restart(), stop() or wait() when status is terminal is released.
C14_TerminalReleasesAll ==
    \A t \in Callers :
        (terminal_status(status_) /\ pc[t] \in {"waiting", "woken", "recheck"})
            ~> pc[t] = "idle"

\* worker_done has just woken two threads that were blocked in wait()
C14_Witness ==
    /\ terminal_status(status_)
    /\ op[Controller] = "wait" /\ pc[Controller] = "woken"
    /\ op[Observer] = "wait" /\ pc[Observer] = "woken"
    /\ pc[Worker] = "deliver"

\* ---------------------------------------------------------------- C15
\* C15: a step of a thread inside wait() leaves status, the pending change
\* and progress alone; wait() returns only with a terminal status; entered
\* with a terminal status it returns in its first critical section.
C15_WaitIsReadOnly ==
    [][\A t \in Callers :
          (op'[t] = "wait" /\ pc[t] # "waiting" /\ pc'[t] # pc[t]) =>
              /\ status_' = status_
              /\ status_change_' = status_change_
              /\ progress_' = progress_
              /\ (pc[t] # "idle" /\ pc'[t] = "idle") =>
                     outcome'[t] = "returned" /\ terminal_status(status_)
              /\ (pc[t] = "body" /\ terminal_status(status_)) =>
                     pc'[t] = "idle"]_vars

\* two threads have returned from wait(), one of them for the second time
C15_Witness ==
    /\ Returned(Controller, "wait")
    /\ Returned(Observer, "wait")
    /\ calls[Controller] >= 2
    /\ status_ = FINISHED

\* ---------------------------------------------------------------- C16
\* C16: once pause() has returned, status is not RUNNING; status becomes
\* RUNNING again only while a restart() or stop() of the controller is in
\* progress; and a pause() that finds status not RUNNING throws in the
\* critical section it entered with, without waiting.
C16_SecondPauseThrows ==
    /\ [](Returned(Controller, "pause") => status_ \in {PAUSED, FINISHED})
    /\ [][(status_ # RUNNING /\ status_' = RUNNING) =>
              /\ op[Controller] \in {"restart", "stop"}
              /\ outcome[Controller] = "none"]_vars
    /\ [][(op[Controller] = "pause" /\ pc[Controller] = "body"
              /\ status_ # RUNNING /\ pc'[Controller] # "body") =>
              /\ pc'[Controller] = "idle"
              /\ outcome'[Controller] = "threw"]_vars

\* a pause() refused after an earlier pause(), a status() call in between
C16_Witness ==
    /\ Threw(Controller, "pause")
    /\ calls[Controller] = 3
    /\ status_ = PAUSED
    /\ pc[Worker] = "waiting"

C18_ResultOnce ==
    /\ [](Returned(Controller, "result") =>
              got = ret /\ ret = PayloadValue(yields) /\ ~valid)
    /\ [][~valid => ~valid']_vars
    /\ [][got # NoValue => got' = got]_vars
    /\ [][(op[Controller] = "result" /\ pc[Controller] = "result_enter"
              /\ ~valid /\ pc'[Controller] # pc[Controller]) =>
              /\ pc'[Controller] = "idle"
              /\ outcome'[Controller] = "threw"]_vars

\* a second result() has thrown after the first returned the value
C18_Witness ==
    /\ Threw(Controller, "result")
    /\ got = ret
    /\ got = PayloadValue(1)
    /\ ~valid

\* ---------------------------------------------------------------- C19
\* C19: the future is ready with a value only when status is terminal, so
\* status is terminal whenever result() has returned a value.
C19_ResultAfterTerminal ==
    /\ future = "value" => terminal_status(status_)
    /\ Returned(Controller, "result") => terminal_status(status_)

\* result() returned the value of a stopped task
C19_Witness ==
    /\ Returned(Controller, "result")
    /\ status_ = STOPPED
    /\ got = ret

\* ---------------------------------------------------------------- C20
\* C20: progress is within [0, 1] in every reachable state, whatever the
\* payload passes to yield.
C20_ProgressInRange ==
    progress_ >= ProgressMin /\ progress_ <= ProgressMax

\* a value above the range, published as 1 by a task that has not finished
C20_Witness ==
    /\ progress_ = ProgressMax
    /\ yields > 0
    /\ status_ \in {RUNNING, PAUSED}
    /\ pc[Worker] # "deliver"

\* ---------------------------------------------------------------- C21
\* C21: whenever status_ is FINISHED, and whenever a status() call has
\* returned FINISHED, progress is exactly 1, whatever the payload last
\* passed to yield.
C21_FinishedMeansFullProgress ==
    (status_ = FINISHED
        \/ \E t \in Callers : op[t] = "status" /\ outcome[t] = FINISHED)
    => progress_ = ProgressMax

\* the observer has read FINISHED from a task that yielded before
C21_Witness ==
    /\ op[Observer] = "status" /\ outcome[Observer] = FINISHED
    /\ yields > 0
    /\ progress_ = ProgressMax
    /\ pc[Worker] = "exited"

\* ---------------------------------------------------------------- C22
\* C22: the destructor of AsyncWorker has returned only if the worker
\* thread has left work(), and it ends in one of two ways: it returns, or
\* the process is ended by std::terminate; until then it is blocked.
C22_DestructorNeverDetaches ==
    /\ pc[Controller] = "destroyed" => pc[Worker] = "exited"
    /\ (op[Controller] = Destructor /\ pc[Worker] # "exited") =>
           pc[Controller] = "dtor_future"

\* the destructor returned after waiting for a task that was stopped
C22_Witness ==
    /\ pc[Controller] = "destroyed"
    /\ pc[Worker] = "exited"
    /\ status_ = STOPPED
    /\ valid

\* ---------------------------------------------------------------- C23
\* C23: status is STOPPED or FINISHED only once the payload function has
\* returned, so stop() and wait() have returned only then; and no step of
\* another thread takes the worker out of the payload function: it leaves
\* it by its own yield, return or throw, also with a stop request pending.
C23_CooperativeCancellation ==
    /\ [](terminal_status(status_) =>
              ret # NoValue /\ pc[Worker] \in {"deliver", "exited"})
    /\ [](\A t \in Callers :
              (Returned(t, "stop") \/ Returned(t, "wait")) => ret # NoValue)
    /\ [][(pc[Worker] = "payload" /\ pc'[Worker] # "payload") =>
              /\ pc'[Worker] \in {"yield_enter", "done_enter", "unwind"}
              /\ status_change_' = status_change_
              /\ \A t \in Callers : pc'[t] = pc[t]]_vars

\* stop() returned from a payload that never yielded and ran to its end
C23_Witness ==
    /\ Returned(Controller, "stop")
    /\ status_ = STOPPED
    /\ yields = 0
    /\ ret = PayloadValue(0)
    /\ pc[Worker] = "exited"

\* ---------------------------------------------------------------- C24
\* C24: a thread blocked in the condition variable (in pause(), restart(),
\* stop(), wait() or the paused wait of yield) does not own status_m_, the
\* mutex is owned only by a thread inside a critical section, and under
\* fair scheduling every status() call returns.
C24_StatusNeverBlocked ==
    /\ [](\A t \in Threads : pc[t] \in {"waiting", "woken"} => mutex # t)
    /\ [](mutex # FREE =>
              pc[mutex] \in {"body", "recheck", "yield_body", "done_body"})
    /\ \A t \in Callers :
          (op[t] = "status" /\ outcome[t] = "none") ~> outcome[t] \in Status

\* status() answered while the worker is paused and the controller is
\* blocked in wait()
C24_Witness ==
    /\ op[Observer] = "status" /\ outcome[Observer] = PAUSED
    /\ op[Controller] = "wait" /\ pc[Controller] = "waiting"
    /\ pc[Worker] = "waiting"
    /\ mutex = FREE

\* ---------------------------------------------------------------- C25
\* C25: when operator<< has written a task, the percentage part is present
\* exactly if the status written is running or paused.
C25_PercentShownIffLive ==
    (op[Observer] = "print" /\ pc[Observer] = "idle") =>
        (os.percent # NoValue <=> os.status \in {"running", "paused"})

\* ---------------------------------------------------------------- C26
\* the token is a number: an optional sign and then digits only
IsNumber(tok) ==
    LET body == IF tok # <<>> /\ (Head(tok) = "-" \/ Head(tok) = "+")
                THEN Tail(tok) ELSE tok
    IN  body # <<>> /\ \A k \in 1..Len(body) : IsDigit(body[k])

\* a command of the documented form: status, or pause / restart / stop
\* with the number of an existing worker
ValidCommand(line) ==
    \/ line = <<"status">>
    \/ /\ Len(line) = 2
       /\ line[1] \in {"pause", "restart", "stop"}
       /\ IsNumber(line[2])
       /\ stoi(line[2]).value \in 1..NWorkers

\* C26: execute_command, given a line with a first word that is not a
\* valid command, prints a message and returns to the loop without calling
\* pause, restart or stop; and when the call it made threw std::logic_error
\* it prints the error message and returns to the loop.
C26_BadCommandReported ==
    /\ [][(pc[Controller] = "execute" /\ pc'[Controller] # "execute"
              /\ command[1] # "" /\ ~ValidCommand(command)) =>
              /\ console' # ""
              /\ pc'[Controller] = "idle"
              /\ op' = op
              /\ status_change_' = status_change_]_vars
    /\ [][(pc[Controller] = "report" /\ pc'[Controller] # "report"
              /\ outcome[Controller] = "threw") =>
              /\ console' = MsgError
              /\ pc'[Controller] = "idle"]_vars

\* ---------------------------------------------------------------- C27
\* C27: the worker leaves the paused wait of yield only in a step in which
\* it owns the mutex and the slot holds RUNNING or STOPPED; woken with any
\* other slot value it goes back to waiting and status stays PAUSED.
C27_PausedWaitNeedsRequest ==
    /\ [][(InPausedWait /\ ~InPausedWait') =>
              /\ status_change_ \in {RUNNING, STOPPED}
              /\ mutex = Worker]_vars
    /\ [][(pc[Worker] = "recheck" /\ pc'[Worker] # "recheck"
              /\ status_change_ \notin {RUNNING, STOPPED}) =>
              /\ pc'[Worker] = "waiting"
              /\ status_' = PAUSED
              /\ yield_ret' = yield_ret]_vars

\* the paused worker, woken without a request, is re-checking the slot
C27_Witness ==
    /\ pc[Worker] = "recheck"
    /\ status_change_ = NONE
    /\ status_ = PAUSED
    /\ Returned(Controller, "pause")

\* ---------------------------------------------------------------- C28
\* C28: whenever yield returns, it returns false exactly if the slot holds
\* STOPPED at that moment: true after a restart() resumed the worker,
\* false after a stop() resumed it, true with an empty slot or with a
\* RUNNING request left from an earlier restart().
C28_YieldResult ==
    [][(pc[Worker] \in {"yield_body", "recheck"} /\ pc'[Worker] = "payload") =>
          /\ yield_ret' = "false" <=> status_change_' = STOPPED
          /\ yield_ret' = "true" <=> status_change_' \in {NONE, RUNNING}
          /\ pc[Worker] = "recheck" => status_change_' = status_change_]_vars

\* a second yield returned true with the RUNNING request of an earlier
\* restart() still in the slot
C28_Witness ==
    /\ yields = 2
    /\ pc[Worker] = "payload"
    /\ yield_ret = "true"
    /\ status_change_ = RUNNING
    /\ Returned(Controller, "restart")

\* ---------------------------------------------------------------- C29
\* C29: with one controller, once yield has returned false every later
\* yield of the task returns false: a STOPPED request stays in the slot.
C29_StopIsSticky ==
    /\ [][yield_ret = "false" => yield_ret' = "false"]_vars
    /\ [][status_change_ = STOPPED => status_change_' = STOPPED]_vars

\* the payload ignored a false result and is calling yield again
C29_Witness ==
    /\ yield_ret = "false"
    /\ yields = 2
    /\ pc[Worker] = "yield_body"
    /\ status_change_ = STOPPED

\* ---------------------------------------------------------------- C30
\* C30: worker_done records STOPPED exactly if the slot holds STOPPED and
\* FINISHED otherwise (empty slot, a PAUSED request never observed, a
\* RUNNING request left over); it sets progress to 1 for FINISHED and
\* leaves it as it is for STOPPED; the slot is not changed.
C30_WorkerDoneOutcome ==
    [][(pc[Worker] = "done_body" /\ pc'[Worker] # "done_body") =>
          /\ status_' = STOPPED <=> status_change_ = STOPPED
          /\ status_' = FINISHED <=> status_change_ \in {NONE, PAUSED, RUNNING}
          /\ status_' = FINISHED => progress_' = ProgressMax
          /\ status_' = STOPPED => progress_' = progress_
          /\ status_change_' = status_change_]_vars

\* a stopped task whose progress is the value of its last yield
C30_Witness ==
    /\ status_ = STOPPED
    /\ progress_ = 50
    /\ pc[Worker] = "deliver"
    /\ yield_ret = "false"

\* ---------------------------------------------------------------- C31
\* C31: status is PAUSED exactly while the worker is inside the paused
\* wait of yield; the worker enters a wait only there, in the critical
\* section of yield that finds a PAUSED request; and it is never in the
\* payload function while status is PAUSED.
C31_PausedIffBlocked ==
    /\ [](status_ = PAUSED <=> InPausedWait)
    /\ [](pc[Worker] = "payload" => status_ # PAUSED)
    /\ [][(~InPausedWait /\ InPausedWait') =>
              /\ pc[Worker] = "yield_body"
              /\ status_change_ = PAUSED
              /\ \E t \in Callers : Accepted(t, "pause")]_vars

\* a thread has read PAUSED under the mutex while the worker is blocked
C31_Witness ==
    /\ op[Observer] = "status" /\ outcome[Observer] = PAUSED
    /\ status_ = PAUSED
    /\ pc[Worker] = "waiting"
    /\ Returned(Controller, "pause")

\* ---------------------------------------------------------------- C32
\* C32: while status is PAUSED and no restart() or stop() has written a
\* request, status and progress do not change, the worker stays in the
\* paused wait of the same yield call, and the slot changes only by a
\* restart() or stop() passing its check; progress is the clamped value
\* that yield call published: it does not change from the call of yield
\* until the worker leaves yield.
C32_FrozenWhilePaused ==
    /\ [][(status_ = PAUSED /\ status_change_ = NONE) =>
              /\ status_' = status_
              /\ progress_' = progress_
              /\ yields' = yields
              /\ yield_ret' = yield_ret
              /\ InPausedWait'
              /\ status_change_' # NONE =>
                     \E t \in Callers :
                        /\ pc[t] = "body" /\ op[t] \in {"restart", "stop"}
                        /\ status_change_' =
                              (IF op[t] = "restart" THEN RUNNING ELSE STOPPED)]_vars
    /\ [][(pc[Worker] = "payload" /\ pc'[Worker] = "yield_enter") =>
              \E p \in ProgressInputs : progress_' = clamp(p)]_vars
    /\ [][pc[Worker] \in {"yield_enter", "yield_body", "waiting", "woken",
                           "recheck"} => progress_' = progress_]_vars

\* pause() has returned, the controller has gone on to another call that
\* is neither restart() nor stop(), and the worker is still blocked with
\* the progress of its yield call
C32_Witness ==
    /\ status_ = PAUSED
    /\ status_change_ = NONE
    /\ op[Controller] = "status" /\ outcome[Controller] = PAUSED
    /\ calls[Controller] = 2
    /\ pc[Worker] = "waiting"
    /\ progress_ = 50

\* ---------------------------------------------------------------- C33
\* C33: under fair scheduling a destructor that has been entered returns
\* or ends the process with std::terminate, whatever the status of the
\* task when it is destroyed.
C33_DestructorEnds ==
    op[Controller] = Destructor ~>
        pc[Controller] \in {"destroyed", "terminated"}

\* ---------------------------------------------------------------- C34
\* C34: once a stop() of one thread has passed its check, a terminal
\* status of the task is STOPPED, also when a restart() of another thread
\* has passed its check on the same paused task.
C34_StopNeverLost ==
    \A t \in Callers :
        ((Accepted(t, "stop") \/ Returned(t, "stop"))
            /\ (\E u \in Callers \ {t} :
                   Accepted(u, "restart") \/ Returned(u, "restart"))
            /\ terminal_status(status_)) => status_ = STOPPED

\* ---------------------------------------------------------------- C35
\* C35 as claimed: in the sequence pause(), restart(), result() of one
\* controller no call throws std::logic_error or std::future_error.
C35_UsageNeverThrows ==
    outcome[Controller] # "threw"

\* C35 as amended: pause() and restart() of the sequence throw exactly
\* when the payload has finished first: pause() when the task is already
\* FINISHED as it is called, restart() when pause() returned because the
\* task finished before it observed the request; restart() on a task that
\* is PAUSED does not throw, and result() does not throw
\* std::future_error.
C35_UsageThrowsOnlyWhenFinished ==
    /\ []((Threw(Controller, "pause") \/ Threw(Controller, "restart")) =>
              status_ = FINISHED)
    /\ [][(pc[Controller] = "body" /\ pc'[Controller] # "body") =>
              (outcome'[Controller] = "threw" <=> status_ = FINISHED)]_vars
    /\ [](op[Controller] = "result" => outcome[Controller] # "threw")

\* restart() threw after a pause() that returned on a finished task
C35_Witness ==
    /\ Threw(Controller, "restart")
    /\ calls[Controller] = 2
    /\ status_ = FINISHED

\* ---------------------------------------------------------------- C36
\* C36: in the thread-based variant, when an accepted stop() has returned
\* and Worker::work has ended, the status is STOPPED.
C36_WorkerStopEndsStopped ==
    (Returned(Controller, "stop") /\ pc[Worker] = "exited" /\ ~joinable) =>
        status_ = STOPPED

\* ---------------------------------------------------------------- C37
\* C37: in the thread-based variant, when ~Worker comes to destroy its
\* members, thread_ is no longer joinable, so the destructor completes.
C37_WorkerDestructorJoins ==
    (op[Controller] = Worker_Destructor
        /\ pc[Controller] \in {"dtor_thread", "destroyed", "terminated"}) =>
        ~joinable /\ pc[Controller] # "terminated"

====
